---- MODULE Spec2Model ----
(***************************************************************************)
(* Model of src/apis.py: the CodeExecutor that interprets a batch of       *)
(* agent-written action lines against a slide, its two histories, and the  *)
(* five registered API functions with the element resolver.                *)
(*                                                                         *)
(* Text is modelled by its structure.  A text is the sequence of its       *)
(* lines (what str.split("\n") returns, so it is never empty).  A line is  *)
(* the record                                                              *)
(*      [pre, head, paren, args, post]                                     *)
(* standing for the characters  pre head ( args ) post  when paren holds   *)
(* and  pre head post  otherwise: pre and post are runs of whitespace,     *)
(* head is the text up to the first "(", args the comma separated literal  *)
(* arguments.  String arguments (image paths, replacement text) are        *)
(* numbered: an argument is always an integer.                             *)
(***************************************************************************)
EXTENDS Integers, Sequences, FiniteSets, TLC

VARIABLES
    api_history,    \* CodeExecutor.api_history: <<mark, slide_idx, actions>>
    code_history,   \* CodeExecutor.code_history: <<mark, line, detail>>
    shapes,         \* edit_slide.shapes, in iteration order
    ret,            \* what the last execute_actions call gave its caller
    calls,          \* per execute_actions call: its locals when it ended
    api_ret         \* what the last direct call of an API function did

vars == <<api_history, code_history, shapes, ret, calls, api_ret>>

----------------------------------------------------------------------------
(* Bounds of the model *)

\* total number of action lines over all batches given to one executor
MaxTotalLines == 4
\* total number of direct API calls made on the slide (SpecApi)
MaxApiCalls == 3

----------------------------------------------------------------------------
(* HistoryMark, src/apis.py:20-25 *)

API_CALL_ERROR == "api_call_error"
API_CALL_CORRECT == "api_call_correct"
CODE_RUN_ERROR == "code_run_error"
CODE_RUN_CORRECT == "code_run_correct"

\* Python's None
None == "None"

----------------------------------------------------------------------------
(* Lines and text *)

Call(head, args) ==
    [pre |-> "", head |-> head, paren |-> TRUE, args |-> args, post |-> ""]

Prose(head) ==
    [pre |-> "", head |-> head, paren |-> FALSE, args |-> <<>>, post |-> ""]

\* the empty string, as a line
EmptyLine == Prose("")

\* a line of whitespace only (or empty)
IsBlank(line) == line.head = "" /\ ~line.paren

\* heads of the model that have the form [a-z]+_[a-z]+
SnakeHeads ==
    {"del_span", "del_image", "clone_paragraph", "replace_text",
     "replace_image", "foo_bar", "def_image"}

\* heads of the model that begin with the characters d e f
DefHeads == {"def f():", "def_image"}

\* re.compile(r"^[a-z]+_[a-z]+\(.+\)$").match(line): no character before
\* the identifier, at least one character between the parentheses, nothing
\* after the closing one
function_regex_match(line) ==
    /\ line.pre = ""
    /\ line.head \in SnakeHeads
    /\ line.paren
    /\ Len(line.args) >= 1
    /\ line.post = ""

\* line.startswith("def")
startswith_def(line) ==
    /\ line.pre = ""
    /\ line.head \in DefHeads

\* line.split("(")[0]; only used on lines the regex matched
split_paren_0(line) == line.head

\* str.strip() of a text: whitespace, line breaks included, is removed at
\* both ends; the result is split at the line breaks left
RECURSIVE lstrip_lines(_)
lstrip_lines(text) ==
    IF text = <<>> THEN <<>>
    ELSE IF IsBlank(Head(text)) THEN lstrip_lines(Tail(text))
    ELSE <<[Head(text) EXCEPT !.pre = ""]>> \o Tail(text)

RECURSIVE rstrip_lines(_)
rstrip_lines(text) ==
    IF text = <<>> THEN <<>>
    ELSE LET n == Len(text) IN
         IF IsBlank(text[n]) THEN rstrip_lines(SubSeq(text, 1, n - 1))
         ELSE SubSeq(text, 1, n - 1) \o <<[text[n] EXCEPT !.post = ""]>>

strip_split(text) ==
    LET s == rstrip_lines(lstrip_lines(text)) IN
    IF s = <<>> THEN <<EmptyLine>> ELSE s

\* Python slices of a list, 0-based, end exclusive
Min(a, b) == IF a < b THEN a ELSE b
Max(a, b) == IF a > b THEN a ELSE b

\* s[:e]
slice_to(s, e) ==
    LET n == Len(s)
        stop == IF e < 0 THEN Max(n + e, 0) ELSE Min(e, n)
    IN  SubSeq(s, 1, stop)

\* s[b:]
slice_from(s, b) ==
    LET n == Len(s)
        start == IF b < 0 THEN Max(n + b, 0) ELSE Min(b, n)
    IN  SubSeq(s, start + 1, n)

\* "\n".join(lines), as the lines of the joined text: joining nothing gives
\* the empty string, which is one empty line
join_lines(lines) == IF lines = <<>> THEN <<EmptyLine>> ELSE lines

\* a line of the annotated text: the error marker (or nothing) and a line
ErrorMarker == "--> Error Line: "
Plain(line) == <<"", line>>
Marked(line) == <<ErrorMarker, line>>

RECURSIVE PlainLines(_)
PlainLines(lines) ==
    IF lines = <<>> THEN <<>>
    ELSE <<Plain(Head(lines))>> \o PlainLines(Tail(lines))

----------------------------------------------------------------------------
(* The slide: shapes with a stable index, a kind, an image path and the    *)
(* three closure buckets                                                   *)

SlideIdx == 1

\* image paths are numbered; os.path.exists holds of these
ExistingPaths == {1, 2}

NoClosures == [delete |-> <<>>, replace |-> <<>>, clone |-> <<>>]

\* paragraphs: the number of runs of each paragraph of the text frame
Shape(idx, picture, path) ==
    [shape_idx |-> idx, is_picture |-> picture, img_path |-> path,
     paragraphs |-> IF picture THEN <<>> ELSE <<2>>,
     closures |-> NoClosures]

\* a text box and two pictures
InitShapes == <<Shape(1, FALSE, 0), Shape(2, TRUE, 1), Shape(3, TRUE, 1)>>

\* what a call gives: the exception it raised (None: it returned) and the
\* slide's shapes after it
Returned(s) == [exc |-> None, shapes |-> s]
Raised(msg, s) == [exc |-> msg, shapes |-> s]

ElementNotFound == "ValueError: Cannot find element, is it deleted or not exist?"
NotPicture == "ValueError: The element is not a Picture."
MissingImage == "ValueError: The image does not exist."
NoCodeBlock == "ValueError: No code block found in the output"
FunctionDefinition == "ValueError: The function definition should not be output."
NotDefined == "ValueError: The function is not defined."
ArityError == "TypeError: wrong number of arguments"
IndexError == "IndexError: list index out of range"

\* element_index taking the id for the position of the shape in the slide
element_index_by_position(s, element_id) ==
    IF element_id \in 1..Len(s) THEN element_id ELSE 0

\* element_index: the position of the first shape whose shape_idx is
\* element_id, 0 when the scan ends without one (the function raises)
element_index(s, element_id) ==
    LET hits == {i \in 1..Len(s) : s[i].shape_idx = element_id} IN
    IF hits = {} THEN 0
    ELSE CHOOSE i \in hits : \A j \in hits : i <= j

\* the closure put at the head of the bucket
append_closure_front(s, pos, kind, closure) ==
    [s EXCEPT ![pos].closures[kind] = <<closure>> \o @]

\* shape._closures[kind].append(closure)
append_closure(s, pos, kind, closure) ==
    [s EXCEPT ![pos].closures[kind] = Append(@, closure)]

\* slide.shapes.remove(shape)
remove_shape(s, pos) == SubSeq(s, 1, pos - 1) \o SubSeq(s, pos + 1, Len(s))

del_span(s, div_id, paragraph_id, span_id) ==
    LET pos == element_index(s, div_id) IN
    IF pos = 0 THEN Raised(ElementNotFound, s)
    ELSE Returned(append_closure(s, pos, "delete",
                    [fn |-> "del_run", args |-> <<paragraph_id, span_id>>]))

\* del_image without its isinstance guard
del_image_unguarded(s, figure_id) ==
    LET pos == element_index(s, figure_id) IN
    IF pos = 0 THEN Raised(ElementNotFound, s)
    ELSE Returned(remove_shape(s, pos))

del_image(s, figure_id) ==
    LET pos == element_index(s, figure_id) IN
    IF pos = 0 THEN Raised(ElementNotFound, s)
    ELSE IF ~s[pos].is_picture THEN Raised(NotPicture, s)
    ELSE Returned(remove_shape(s, pos))

replace_text(s, div_id, paragraph_id, span_id, text) ==
    LET pos == element_index(s, div_id) IN
    IF pos = 0 THEN Raised(ElementNotFound, s)
    ELSE Returned(append_closure(s, pos, "replace",
                    [fn |-> "replace_run",
                     args |-> <<paragraph_id, span_id, text>>]))

\* replace_image with the shape looked up before the file is checked
replace_image_lookup_first(s, figure_id, image_path) ==
    LET pos == element_index(s, figure_id) IN
    IF pos = 0 THEN Raised(ElementNotFound, s)
    ELSE IF ~s[pos].is_picture THEN Raised(NotPicture, s)
    ELSE IF image_path \notin ExistingPaths THEN Raised(MissingImage, s)
    ELSE Returned([s EXCEPT ![pos].img_path = image_path])

replace_image(s, figure_id, image_path) ==
    IF image_path \notin ExistingPaths THEN Raised(MissingImage, s)
    ELSE LET pos == element_index(s, figure_id) IN
         IF pos = 0 THEN Raised(ElementNotFound, s)
         ELSE IF ~s[pos].is_picture THEN Raised(NotPicture, s)
         ELSE Returned([s EXCEPT ![pos].img_path = image_path])

clone_paragraph(s, div_id, paragraph_id) ==
    LET pos == element_index(s, div_id) IN
    IF pos = 0 THEN Raised(ElementNotFound, s)
    ELSE Returned(append_closure(s, pos, "clone",
                    [fn |-> "clone_para", args |-> <<paragraph_id>>]))

\* API_TYPES.all_funcs(): the names of the registered functions
registered_functions ==
    {"del_span", "del_image", "clone_paragraph", "replace_text",
     "replace_image"}

\* the number of arguments a registered function takes after the slide
Arity(func) ==
    CASE func = "del_span" -> 3
      [] func = "del_image" -> 1
      [] func = "replace_text" -> 4
      [] func = "replace_image" -> 2
      [] func = "clone_paragraph" -> 2

\* An argument that is not a literal is numbered below zero: the text of
\* an expression that refers to a name.
\* len('a'): a built-in applied to a literal
ArgLen == -1
\* x: a name nothing binds
ArgVar == -2
\* clone_paragraph: the name of a registered function
ArgOtherOp == -3

ExprName(a) ==
    CASE a = ArgLen -> "len"
      [] a = ArgVar -> "x"
      [] a = ArgOtherOp -> "clone_paragraph"

\* the names of Python's builtins module among the names of the model
PyBuiltins == {"len"}

NameError == "NameError: name is not defined"

\* eval's name lookup: the locals {func: partial_func}, then the globals,
\* the empty dictionary into which eval inserts __builtins__
name_resolves(name, func) == name = func \/ name \in PyBuiltins

\* the value of one argument expression: a literal is its value, len('a')
\* is 1, the line's own function is the partial object (no integer: itself)
eval_arg(a, func) ==
    IF a >= 0 THEN [exc |-> None, val |-> a]
    ELSE IF ~name_resolves(ExprName(a), func)
    THEN [exc |-> NameError, val |-> a]
    ELSE [exc |-> None, val |-> IF ExprName(a) = "len" THEN 1 ELSE a]

\* the arguments are evaluated from left to right before the call is made
eval_args(a, func) ==
    LET bad == {i \in 1..Len(a) : eval_arg(a[i], func).exc # None} IN
    [exc |-> IF bad = {} THEN None ELSE NameError,
     vals |-> [i \in 1..Len(a) |-> eval_arg(a[i], func).val]]

\* eval(line, {}, {func: partial(registered_functions[func], edit_slide)}):
\* the argument expressions are evaluated, then the call binds their values
\* to the parameters after the slide (a TypeError when their number is
\* wrong)
eval_line(func, args, s) ==
    LET ev == eval_args(args, func)
        a == ev.vals
    IN  IF ev.exc # None THEN Raised(ev.exc, s)
        ELSE IF Len(a) # Arity(func) THEN Raised(ArityError, s)
        ELSE CASE func = "del_span" -> del_span(s, a[1], a[2], a[3])
               [] func = "del_image" -> del_image(s, a[1])
               [] func = "replace_text" ->
                      replace_text(s, a[1], a[2], a[3], a[4])
               [] func = "replace_image" -> replace_image(s, a[1], a[2])
               [] func = "clone_paragraph" -> clone_paragraph(s, a[1], a[2])

----------------------------------------------------------------------------
(* CodeExecutor.execute_actions, src/apis.py:59-93 *)

\* line 67 with the index compared to the length: never true in the loop
no_code_found_past_end(api_calls, line_idx, found_code) ==
    line_idx = Len(api_calls) /\ ~found_code

\* the condition of line 67: the last line is reached and no line before it
\* matched the grammar
no_code_found(api_calls, line_idx, found_code) ==
    line_idx = Len(api_calls) - 1 /\ ~found_code

\* the try body with the statement entry appended before the registry is
\* consulted (lines 77-79 in another order)
try_line_append_first(api_calls, line_idx, st) ==
    LET line == api_calls[line_idx + 1]
        func == split_paren_0(line)
        appended == Append(st.code_history, <<CODE_RUN_ERROR, line, None>>)
        res == eval_line(func, line.args, st.shapes)
    IN  IF no_code_found(api_calls, line_idx, st.found_code)
        THEN [st EXCEPT !.exc = NoCodeBlock]
        ELSE IF startswith_def(line)
        THEN [st EXCEPT !.exc = FunctionDefinition]
        ELSE IF ~function_regex_match(line)
        THEN st
        ELSE IF func \notin registered_functions
        THEN [st EXCEPT !.found_code = TRUE, !.exc = NotDefined,
                        !.code_history = appended]
        ELSE IF res.exc # None
        THEN [exc |-> res.exc, found_code |-> TRUE,
              code_history |-> appended, shapes |-> res.shapes]
        ELSE [exc |-> None, found_code |-> TRUE,
              code_history |->
                  [appended EXCEPT ![Len(appended)][1] = CODE_RUN_CORRECT],
              shapes |-> res.shapes]

\* the body of the try statement for the line at line_idx (0-based):
\* the exception it raised (None: it reached the end or continued) and
\* found_code, code_history and the slide's shapes where it stopped
try_line(api_calls, line_idx, st) ==
    LET line == api_calls[line_idx + 1]
        func == split_paren_0(line)
        appended == Append(st.code_history, <<CODE_RUN_ERROR, line, None>>)
        res == eval_line(func, line.args, st.shapes)
    IN  IF no_code_found(api_calls, line_idx, st.found_code)
        THEN [st EXCEPT !.exc = NoCodeBlock]
        ELSE IF startswith_def(line)
        THEN [st EXCEPT !.exc = FunctionDefinition]
        ELSE IF ~function_regex_match(line)
        THEN st
        ELSE IF func \notin registered_functions
        THEN [st EXCEPT !.found_code = TRUE, !.exc = NotDefined]
        ELSE IF res.exc # None
        THEN [exc |-> res.exc, found_code |-> TRUE,
              code_history |-> appended, shapes |-> res.shapes]
        ELSE [exc |-> None, found_code |-> TRUE,
              code_history |->
                  [appended EXCEPT ![Len(appended)][1] = CODE_RUN_CORRECT],
              shapes |-> res.shapes]

\* the text the except clause builds:
\* "\n".join(api_calls[: line_idx - 1]) + f"\n--> Error Line: {line}\n"
\*   + "\n".join(api_calls[line_idx:])
annotate(api_calls, line_idx) ==
    PlainLines(join_lines(slice_to(api_calls, line_idx - 1)))
    \o <<Marked(api_calls[line_idx + 1])>>
    \o PlainLines(join_lines(slice_from(api_calls, line_idx)))

\* the except clause marking the last statement entry as failed when it
\* attaches the trace
except_clause_marks(api_calls, line_idx, st) ==
    LET trace_msg == st.exc
        n == Len(st.code_history)
    IN  IF st.found_code /\ n = 0
        THEN [kind |-> "raise", api_lines |-> <<>>, trace_msg |-> None,
              exc |-> IndexError, line_idx |-> line_idx,
              found_code |-> st.found_code,
              code_history |-> st.code_history, shapes |-> st.shapes]
        ELSE [kind |-> "tuple", api_lines |-> annotate(api_calls, line_idx),
              trace_msg |-> trace_msg, exc |-> None, line_idx |-> line_idx,
              found_code |-> st.found_code,
              code_history |->
                  IF st.found_code
                  THEN [st.code_history EXCEPT ![n][1] = CODE_RUN_ERROR,
                                               ![n][3] = trace_msg]
                  ELSE st.code_history,
              shapes |-> st.shapes]

\* the except clause, entered with the state st the try body left: how the
\* call ends.  code_history[-1] of an empty history raises IndexError in
\* the clause itself, which nothing catches.
except_clause(api_calls, line_idx, st) ==
    LET trace_msg == st.exc
        n == Len(st.code_history)
    IN  IF st.found_code /\ n = 0
        THEN [kind |-> "raise", api_lines |-> <<>>, trace_msg |-> None,
              exc |-> IndexError, line_idx |-> line_idx,
              found_code |-> st.found_code,
              code_history |-> st.code_history, shapes |-> st.shapes]
        ELSE [kind |-> "tuple", api_lines |-> annotate(api_calls, line_idx),
              trace_msg |-> trace_msg, exc |-> None, line_idx |-> line_idx,
              found_code |-> st.found_code,
              code_history |->
                  IF st.found_code
                  THEN [st.code_history EXCEPT ![n][3] = trace_msg]
                  ELSE st.code_history,
              shapes |-> st.shapes]

\* the loop going on to the next line after the except clause
RECURSIVE for_loop_no_stop(_, _, _)
for_loop_no_stop(api_calls, line_idx, st) ==
    IF line_idx >= Len(api_calls)
    THEN [kind |-> "none", api_lines |-> <<>>, trace_msg |-> None,
          exc |-> None, line_idx |-> -1, found_code |-> st.found_code,
          code_history |-> st.code_history, shapes |-> st.shapes]
    ELSE LET after == try_line(api_calls, line_idx, st) IN
         IF after.exc = None
         THEN for_loop_no_stop(api_calls, line_idx + 1, after)
         ELSE LET failed == except_clause(api_calls, line_idx, after)
                  rest == for_loop_no_stop(api_calls, line_idx + 1,
                              [exc |-> None, found_code |-> failed.found_code,
                               code_history |-> failed.code_history,
                               shapes |-> failed.shapes])
              IN  [failed EXCEPT !.code_history = rest.code_history,
                                 !.shapes = rest.shapes]

\* the for loop from line_idx on: how the call ends
RECURSIVE for_loop(_, _, _)
for_loop(api_calls, line_idx, st) ==
    IF line_idx >= Len(api_calls)
    THEN [kind |-> "none", api_lines |-> <<>>, trace_msg |-> None,
          exc |-> None, line_idx |-> -1, found_code |-> st.found_code,
          code_history |-> st.code_history, shapes |-> st.shapes]
    ELSE LET after == try_line(api_calls, line_idx, st) IN
         IF after.exc = None
         THEN for_loop(api_calls, line_idx + 1, after)
         ELSE except_clause(api_calls, line_idx, after)

\* the flip of line 93 reached however the call ends
batch_mark_always(kind) == API_CALL_CORRECT

\* the mark of the batch entry when the call ends: the flip of line 93 is
\* reached only when the loop ran to its end
batch_mark(kind) ==
    IF kind = "none" THEN API_CALL_CORRECT ELSE API_CALL_ERROR

\* the call putting the slide back as it found it when the batch fails
execute_actions_rollback(actions) ==
    LET api_calls == strip_split(actions)
        end == for_loop(api_calls, 0,
                   [exc |-> None, found_code |-> FALSE,
                    code_history |-> code_history, shapes |-> shapes])
    IN  /\ api_history' =
               Append(api_history, <<batch_mark(end.kind), SlideIdx, actions>>)
        /\ code_history' = end.code_history
        /\ shapes' = IF end.kind = "none" THEN end.shapes ELSE shapes
        /\ ret' = [kind |-> end.kind, api_lines |-> end.api_lines,
                   trace_msg |-> end.trace_msg, exc |-> end.exc]
        /\ calls' = Append(calls,
               [actions |-> actions, api_calls |-> api_calls,
                kind |-> end.kind, trace_msg |-> end.trace_msg,
                line_idx |-> end.line_idx, found_code |-> end.found_code,
                code_before |-> code_history, shapes_before |-> shapes])
        /\ UNCHANGED api_ret

execute_actions(actions) ==
    LET api_calls == strip_split(actions)
        end == for_loop(api_calls, 0,
                   [exc |-> None, found_code |-> FALSE,
                    code_history |-> code_history, shapes |-> shapes])
    IN  /\ api_history' =
               Append(api_history, <<batch_mark(end.kind), SlideIdx, actions>>)
        /\ code_history' = end.code_history
        /\ shapes' = end.shapes
        /\ ret' = [kind |-> end.kind, api_lines |-> end.api_lines,
                   trace_msg |-> end.trace_msg, exc |-> end.exc]
        /\ calls' = Append(calls,
               [actions |-> actions, api_calls |-> api_calls,
                kind |-> end.kind, trace_msg |-> end.trace_msg,
                line_idx |-> end.line_idx, found_code |-> end.found_code,
                code_before |-> code_history, shapes_before |-> shapes])
        /\ UNCHANGED api_ret

----------------------------------------------------------------------------
(* The executor's specification: batches of action lines given to one      *)
(* executor, one call after the other, on one slide                        *)

\* a line of commentary, such as the fence that opens a code block
Fence == Prose("# fence")
DefLine == Prose("def f():")

Lines ==
    {Fence, DefLine,
     Call("foo_bar", <<1>>),
     Call("del_span", <<1, 0, 0>>),
     Call("replace_text", <<1, 0, 0, 7>>),
     Call("del_image", <<2>>),
     Call("del_image", <<9>>)}

RECURSIVE TotalLines(_)
TotalLines(h) ==
    IF h = <<>> THEN 0 ELSE Len(Head(h)[3]) + TotalLines(Tail(h))

NoReturn == [kind |-> "init", api_lines |-> <<>>, trace_msg |-> None,
             exc |-> None]
NoApiReturn == [func |-> None, args |-> <<>>, exc |-> None,
                shapes_before |-> <<>>, n |-> 0]

Init ==
    /\ api_history = <<>>
    /\ code_history = <<>>
    /\ shapes = InitShapes
    /\ ret = NoReturn
    /\ calls = <<>>
    /\ api_ret = NoApiReturn

Next ==
    \E n \in 1..(MaxTotalLines - TotalLines(api_history)) :
        \E actions \in [1..n -> Lines] : execute_actions(actions)

Spec == Init /\ [][Next]_vars

----------------------------------------------------------------------------
(* The API functions called directly on the slide, as the registry's       *)
(* partial(func, edit_slide) calls them                                    *)

ElementIds == {1, 2, 9}
ParagraphIds == {0}
SpanIds == {0, 1}
Texts == {7}
ImagePaths == {0, 1}

api_call(func, args, res) ==
    /\ api_ret.n < MaxApiCalls
    /\ shapes' = res.shapes
    /\ api_ret' = [func |-> func, args |-> args, exc |-> res.exc,
                   shapes_before |-> shapes, n |-> api_ret.n + 1]
    /\ UNCHANGED <<api_history, code_history, ret, calls>>

call_del_span ==
    \E id \in ElementIds, p \in ParagraphIds, sp \in SpanIds :
        api_call("del_span", <<id, p, sp>>, del_span(shapes, id, p, sp))

call_del_image ==
    \E id \in ElementIds :
        api_call("del_image", <<id>>, del_image(shapes, id))

call_replace_text ==
    \E id \in ElementIds, p \in ParagraphIds, sp \in SpanIds, t \in Texts :
        api_call("replace_text", <<id, p, sp, t>>,
                 replace_text(shapes, id, p, sp, t))

call_replace_image ==
    \E id \in ElementIds, path \in ImagePaths :
        api_call("replace_image", <<id, path>>,
                 replace_image(shapes, id, path))

call_clone_paragraph ==
    \E id \in ElementIds, p \in ParagraphIds :
        api_call("clone_paragraph", <<id, p>>, clone_paragraph(shapes, id, p))

NextApi ==
    \/ call_del_span
    \/ call_del_image
    \/ call_replace_text
    \/ call_replace_image
    \/ call_clone_paragraph

SpecApi == Init /\ [][NextApi]_vars

----------------------------------------------------------------------------
(* Batches whose statements pass names as arguments *)

LinesEval ==
    {Fence,
     Call("del_span", <<1, 0, 0>>),
     Call("del_span", <<ArgLen, 0, 0>>),
     Call("del_span", <<ArgVar, 0, 0>>),
     Call("del_span", <<ArgOtherOp, 0, 0>>)}

NextEval ==
    \E n \in 1..(MaxTotalLines - TotalLines(api_history)) :
        \E actions \in [1..n -> LinesEval] : execute_actions(actions)

SpecEval == Init /\ [][NextEval]_vars

----------------------------------------------------------------------------
(* Batches that edit the slide: closures queued on two shapes, a picture   *)
(* removed and replaced, an element that does not exist                    *)

LinesEdit ==
    {Fence,
     Call("del_span", <<1, 0, 0>>),
     Call("del_span", <<3, 0, 1>>),
     Call("del_image", <<2>>),
     Call("replace_image", <<2, 1>>),
     Call("del_image", <<9>>)}

NextEdit ==
    \E n \in 1..(MaxTotalLines - TotalLines(api_history)) :
        \E actions \in [1..n -> LinesEdit] : execute_actions(actions)

SpecEdit == Init /\ [][NextEdit]_vars

----------------------------------------------------------------------------
(* Batches whose lines carry whitespace of their own *)

Indented(line) == [line EXCEPT !.pre = " "]
Trailing(line) == [line EXCEPT !.post = " "]

LinesWs ==
    {Fence, EmptyLine,
     Call("del_span", <<1, 0, 0>>),
     Indented(Call("del_span", <<1, 0, 1>>)),
     Trailing(Call("del_span", <<1, 0, 1>>)),
     Indented(DefLine)}

NextWs ==
    \E n \in 1..(MaxTotalLines - TotalLines(api_history)) :
        \E actions \in [1..n -> LinesWs] : execute_actions(actions)

SpecWs == Init /\ [][NextWs]_vars

----------------------------------------------------------------------------
(* One batch given to the executor and then given to it again, unchanged *)

MaxBatchLines == 3
MaxRuns == 2

LinesRerun ==
    {Fence,
     Call("del_span", <<1, 0, 0>>),
     Call("del_image", <<2>>),
     Call("replace_image", <<3, 2>>),
     Call("del_image", <<9>>)}

first_batch ==
    /\ api_history = <<>>
    /\ \E n \in 1..MaxBatchLines :
           \E actions \in [1..n -> LinesRerun] : execute_actions(actions)

rerun_batch ==
    /\ api_history # <<>>
    /\ Len(api_history) < MaxRuns
    /\ execute_actions(api_history[Len(api_history)][3])

NextRerun == first_batch \/ rerun_batch

SpecRerun == Init /\ [][NextRerun]_vars

----------------------------------------------------------------------------
(* Reading a state: the calls made so far and what each appended *)

Called == calls # <<>>
LastCall == calls[Len(calls)]

\* the positions in code_history of the entries call i appended
Appended(i) ==
    (Len(calls[i].code_before) + 1) ..
        (IF i = Len(calls) THEN Len(code_history)
         ELSE Len(calls[i + 1].code_before))

\* the positions of the marked lines of an annotated text
MarkedAt(text) == {i \in 1..Len(text) : text[i][1] = ErrorMarker}

\* the grammar-matching lines of a batch, by position
Matching(api_calls) ==
    {i \in 1..Len(api_calls) : function_regex_match(api_calls[i])}

First(S) == CHOOSE i \in S : \A j \in S : i <= j

\* every line is commentary or a registered call that returns when the
\* lines are executed in order from the shapes s; no line is a definition
RECURSIVE RunsClean(_, _)
RunsClean(lines, s) ==
    IF lines = <<>> THEN TRUE
    ELSE LET line == Head(lines) IN
         /\ ~startswith_def(line)
         /\ IF ~function_regex_match(line) THEN RunsClean(Tail(lines), s)
            ELSE /\ line.head \in registered_functions
                 /\ LET res == eval_line(line.head, line.args, s) IN
                    /\ res.exc = None
                    /\ RunsClean(Tail(lines), res.shapes)

----------------------------------------------------------------------------
(* The claims *)

\* C1 (as claimed): a batch in which every line is commentary or a
\* registered call that executes without raising, and that holds at least
\* one call (the one-line batch and the batch whose only call is its last
\* line included), ends with its batch entry api_call_correct and every
\* statement entry it appended code_run_correct.
C1_CleanBatchAccepted ==
    \A i \in 1..Len(calls) :
        ( /\ RunsClean(calls[i].api_calls, calls[i].shapes_before)
          /\ Matching(calls[i].api_calls) # {} )
        => /\ api_history[i][1] = API_CALL_CORRECT
           /\ \A j \in Appended(i) : code_history[j][1] = CODE_RUN_CORRECT

\* C2: a batch entry is api_call_correct only if its call returned the
\* no-error signal, no line took the failure branch and every statement
\* entry the call appended is code_run_correct; a call that returned the
\* failure tuple left its batch entry api_call_error.
C2_CorrectOnlyIfAllCorrect ==
    /\ Len(api_history) = Len(calls)
    /\ \A i \in 1..Len(calls) :
        /\ api_history[i][1] = API_CALL_CORRECT
            => /\ calls[i].kind = "none"
               /\ calls[i].line_idx = -1
               /\ \A j \in Appended(i) :
                      code_history[j][1] = CODE_RUN_CORRECT
        /\ calls[i].kind = "tuple" => api_history[i][1] = API_CALL_ERROR

\* an accepted batch that appended a statement, and a rejected batch that
\* left a code_run_error entry
C2_Witness ==
    /\ \E i \in 1..Len(calls) :
          api_history[i][1] = API_CALL_CORRECT /\ Appended(i) # {}
    /\ \E i \in 1..Len(calls) :
          /\ calls[i].kind = "tuple"
          /\ \E j \in Appended(i) : code_history[j][1] = CODE_RUN_ERROR

\* C3 (as claimed): the annotated text of a call that failed at line k of
\* n has exactly n lines, line k marked and every other line as it was.
C3_AnnotatedInPlace ==
    (Called /\ ret.kind = "tuple")
    => LET api_calls == LastCall.api_calls
           k == LastCall.line_idx + 1
       IN  ret.api_lines =
               [i \in 1..Len(api_calls) |->
                   IF i = k THEN Marked(api_calls[i])
                   ELSE Plain(api_calls[i])]

\* C4 (as claimed): no exception escapes execute_actions: every call
\* returns the no-error signal or the failure tuple.
C4_NoExceptionEscapes ==
    \A i \in 1..Len(calls) : calls[i].kind \in {"none", "tuple"}

\* C5 (as claimed): when a batch holds a grammar-matching line whose
\* identifier is not registered, and the lines before the first such line
\* run clean, the call returns the failure tuple, the only marked line of
\* the annotated text is that line, and the call appended statement
\* entries only for lines before it.
C5_UnregisteredRejected ==
    \A i \in 1..Len(calls) :
        LET api_calls == calls[i].api_calls
            unreg == {u \in Matching(api_calls) :
                         api_calls[u].head \notin registered_functions}
        IN  ( /\ unreg # {}
              /\ RunsClean(SubSeq(api_calls, 1, First(unreg) - 1),
                           calls[i].shapes_before) )
            => /\ calls[i].kind = "tuple"
               /\ calls[i].line_idx = First(unreg) - 1
               /\ i = Len(calls) =>
                     /\ MarkedAt(ret.api_lines) # {}
                     /\ \A m \in MarkedAt(ret.api_lines) :
                            ret.api_lines[m] = Marked(api_calls[First(unreg)])
               /\ Cardinality(Appended(i)) =
                     Cardinality({m \in Matching(api_calls) :
                                     m < First(unreg)})

\* what C6 promises of call i: the no-code error raised at the final
\* line, the marker on that line, nothing appended, the batch rejected
NoCodeFailure(i) ==
    LET api_calls == calls[i].api_calls IN
    /\ calls[i].kind = "tuple"
    /\ calls[i].line_idx = Len(api_calls) - 1
    /\ Appended(i) = {}
    /\ api_history[i][1] = API_CALL_ERROR
    /\ i = Len(calls) =>
          /\ ret.trace_msg = NoCodeBlock
          /\ MarkedAt(ret.api_lines) # {}
          /\ \A m \in MarkedAt(ret.api_lines) :
                 ret.api_lines[m] = Marked(api_calls[Len(api_calls)])

\* C6 (as claimed): every batch in which no line matches the grammar
\* fails with the no-code error on its final line.
C6_NoMatchFailsAtLastLine ==
    \A i \in 1..Len(calls) :
        Matching(calls[i].api_calls) = {} => NoCodeFailure(i)

\* C6 (amended): every batch in which no line matches the grammar and no
\* line before the final one begins with def fails with the no-code error
\* raised at its final line: the marked line carries the final line's
\* text, no statement entry is appended, the batch entry stays
\* api_call_error.
C6_NoMatchNoDefFailsAtLastLine ==
    \A i \in 1..Len(calls) :
        LET api_calls == calls[i].api_calls IN
        ( /\ Matching(api_calls) = {}
          /\ \A m \in 1..(Len(api_calls) - 1) : ~startswith_def(api_calls[m]) )
        => NoCodeFailure(i)

\* a batch of several lines of commentary, rejected at its final line
C6_Witness ==
    /\ Called
    /\ Len(LastCall.api_calls) >= 2
    /\ Matching(LastCall.api_calls) = {}
    /\ \A m \in 1..(Len(LastCall.api_calls) - 1) :
           ~startswith_def(LastCall.api_calls[m])
    /\ ret.kind = "tuple"
    /\ ret.trace_msg = NoCodeBlock

\* C7 (as claimed): a batch that holds a line beginning with def is
\* rejected: the call returns the failure tuple, the batch entry stays
\* api_call_error, and no line after the definition line is executed.
C7_DefinitionRejected ==
    \A i \in 1..Len(calls) :
        LET api_calls == calls[i].api_calls
            defs == {d \in 1..Len(api_calls) : startswith_def(api_calls[d])}
        IN  defs # {}
            => /\ calls[i].kind = "tuple"
               /\ api_history[i][1] = API_CALL_ERROR
               /\ calls[i].line_idx <= First(defs) - 1
               /\ Cardinality(Appended(i)) <=
                     Cardinality({m \in Matching(api_calls) :
                                     m < First(defs)})

\* C8 (as claimed): when the first grammar-matching line of a batch calls
\* a registered operation with an element id no shape has (and no line
\* before it is a definition), the call fails with the element-not-found
\* error, the marked line is that line, and statement history gains
\* exactly one entry: that line, code_run_error, with that trace.
C8_MissingElementReported ==
    Called =>
        LET api_calls == LastCall.api_calls
            g == First(Matching(api_calls))
            line == api_calls[g]
        IN  ( /\ Matching(api_calls) # {}
              /\ \A m \in 1..g : ~startswith_def(api_calls[m])
              /\ line.head \in registered_functions
              /\ Len(line.args) = Arity(line.head)
              /\ line.head = "replace_image" => line.args[2] \in ExistingPaths
              /\ element_index(LastCall.shapes_before, line.args[1]) = 0 )
            => /\ ret.kind = "tuple"
               /\ ret.trace_msg = ElementNotFound
               /\ MarkedAt(ret.api_lines) # {}
               /\ \A m \in MarkedAt(ret.api_lines) :
                      ret.api_lines[m] = Marked(line)
               /\ code_history =
                      Append(LastCall.code_before,
                             <<CODE_RUN_ERROR, line, ElementNotFound>>)

\* the last direct call named a shape that is not a Picture
OnNonPicture ==
    LET pos == element_index(api_ret.shapes_before, api_ret.args[1]) IN
    /\ pos # 0
    /\ ~api_ret.shapes_before[pos].is_picture

\* C9 (as claimed): del_image or replace_image on a shape that is not a
\* Picture fails with the type-mismatch error and leaves every shape, image
\* path and closure bucket as it was.
C9_NonPictureRejected ==
    ( /\ api_ret.func \in {"del_image", "replace_image"}
      /\ OnNonPicture )
    => /\ api_ret.exc = NotPicture
       /\ shapes = api_ret.shapes_before

\* C9 (amended): del_image, or replace_image with an image path that
\* exists, on a shape that is not a Picture fails with the type-mismatch
\* error and leaves every shape, image path and closure bucket as it was.
C9_NonPictureRejectedWhenFileExists ==
    ( /\ api_ret.func \in {"del_image", "replace_image"}
      /\ api_ret.func = "replace_image" => api_ret.args[2] \in ExistingPaths
      /\ OnNonPicture )
    => /\ api_ret.exc = NotPicture
       /\ shapes = api_ret.shapes_before

\* replace_image with an existing file on a text shape that already has
\* closures queued
C9_Witness ==
    /\ api_ret.func = "replace_image"
    /\ api_ret.args[2] \in ExistingPaths
    /\ OnNonPicture
    /\ \E i \in 1..Len(shapes) : shapes[i].closures # NoClosures

\* C10: replace_image with an image path that does not exist fails with
\* the missing-asset error, whether or not the figure id is on the slide
\* and whether or not the shape is a Picture, and changes no shape.
C10_MissingAssetFirst ==
    ( /\ api_ret.func = "replace_image"
      /\ api_ret.args[2] \notin ExistingPaths )
    => /\ api_ret.exc = MissingImage
       /\ shapes = api_ret.shapes_before

\* replace_image with a missing file and an id no shape has
C10_Witness ==
    /\ api_ret.func = "replace_image"
    /\ api_ret.args[2] \notin ExistingPaths
    /\ element_index(api_ret.shapes_before, api_ret.args[1]) = 0

\* the names a line's arguments refer to, the line's own function apart
ForeignNames(line) ==
    {ExprName(line.args[i]) : i \in {k \in 1..Len(line.args) :
                                         line.args[k] < 0}} \ {line.head}

\* C11 (as claimed): a statement can resolve no name but the registered
\* operation the line names: a statement whose arguments refer to another
\* registered operation, a variable or a built-in fails, so its entry stays
\* code_run_error.
C11_OnlyOwnNameResolves ==
    \A j \in 1..Len(code_history) :
        ForeignNames(code_history[j][2]) # {}
        => code_history[j][1] = CODE_RUN_ERROR

\* the id a statement entry's line passes (literal first arguments only)
EntryId(j) == code_history[j][2].args[1]

\* an entry of call i before entry j that removed the shape j names
RemovedBefore(i, j) ==
    \E d \in Appended(i) :
        /\ d < j
        /\ code_history[d][2].head = "del_image"
        /\ code_history[d][1] = CODE_RUN_CORRECT
        /\ EntryId(d) = EntryId(j)

\* the statement entries of call i whose id named a shape when it began
NamedAtStart(i) ==
    {j \in Appended(i) :
        element_index(calls[i].shapes_before, EntryId(j)) # 0}

C13_MarksOnlyFlipForward ==
    [][ /\ Len(api_history') >= Len(api_history)
        /\ \A i \in 1..Len(api_history) : api_history'[i] = api_history[i]
        /\ \A i \in 1..Len(api_history') :
               api_history'[i][1] \in {API_CALL_ERROR, API_CALL_CORRECT}
        /\ Len(code_history') >= Len(code_history)
        /\ \A j \in 1..Len(code_history) :
               /\ code_history'[j][1] = code_history[j][1]
               /\ code_history'[j][2] = code_history[j][2]
        /\ \A j \in 1..Len(code_history') :
               code_history'[j][1] \in {CODE_RUN_ERROR, CODE_RUN_CORRECT}
      ]_vars

\* a later call failed with found_code set and wrote its trace into the
\* code_run_correct entry of an earlier call, whose mark stayed
C13_Witness ==
    /\ Len(calls) >= 2
    /\ Appended(Len(calls)) = {}
    /\ code_history # <<>>
    /\ code_history[Len(code_history)][1] = CODE_RUN_CORRECT
    /\ code_history[Len(code_history)][3] # None

\* C14 (as claimed): a trace is attached only to the entry appended for
\* the failing line itself, so every entry marked code_run_correct keeps
\* an absent detail.
C14_CorrectEntriesHaveNoTrace ==
    \A j \in 1..Len(code_history) :
        code_history[j][1] = CODE_RUN_CORRECT => code_history[j][3] = None

\* the failures raised before the line's statement entry is appended
PreEntryFailures == {NoCodeBlock, FunctionDefinition, NotDefined}

\* the positions of the lines of call i that were evaluated: the registered
\* grammar-matching lines the loop reached, the failing line among them
\* only when it failed in its evaluation
Attempted(i) ==
    LET c == calls[i] IN
    {m \in Matching(c.api_calls) :
        /\ c.api_calls[m].head \in registered_functions
        /\ \/ c.kind = "none"
           \/ m < c.line_idx + 1
           \/ /\ m = c.line_idx + 1
              /\ c.kind = "tuple"
              /\ c.trace_msg \notin PreEntryFailures}

\* the lines at the positions S, in line order
RECURSIVE LinesAt(_, _, _)
LinesAt(api_calls, m, S) ==
    IF m > Len(api_calls) THEN <<>>
    ELSE (IF m \in S THEN <<api_calls[m]>> ELSE <<>>)
         \o LinesAt(api_calls, m + 1, S)

\* the lines of the statement entries call i appended, in history order
EntryLines(i) ==
    LET first == Len(calls[i].code_before) IN
    [k \in 1..Cardinality(Appended(i)) |-> code_history[first + k][2]]

\* C15: every call appends exactly one batch entry, tagged with the slide
\* index and the raw batch text, and one statement entry per statement it
\* evaluated, in line order; skipped and unreached lines append nothing.
C15_OneEntryPerAttempt ==
    /\ Len(api_history) = Len(calls)
    /\ \A i \in 1..Len(calls) :
        /\ api_history[i][2] = SlideIdx
        /\ api_history[i][3] = calls[i].actions
        /\ EntryLines(i) = LinesAt(calls[i].api_calls, 1, Attempted(i))

\* a four-line batch: a statement, a skipped line, a statement that
\* failed, a line never reached
C15_Witness ==
    /\ Called
    /\ Len(LastCall.api_calls) = 4
    /\ LastCall.line_idx = 2
    /\ ~function_regex_match(LastCall.api_calls[2])
    /\ Cardinality(Appended(Len(calls))) = 2
    /\ function_regex_match(LastCall.api_calls[4])

\* the slide's shapes when call i ended
ShapesAfter(i) ==
    IF i = Len(calls) THEN shapes ELSE calls[i + 1].shapes_before

\* the shapes after the registered statements among lines have run in
\* order from the shapes s, a statement that raises changing nothing
RECURSIVE ApplyLines(_, _)
ApplyLines(lines, s) ==
    IF lines = <<>> THEN s
    ELSE LET line == Head(lines) IN
         IF function_regex_match(line) /\ line.head \in registered_functions
         THEN ApplyLines(Tail(lines),
                         eval_line(line.head, line.args, s).shapes)
         ELSE ApplyLines(Tail(lines), s)

\* C16: a call that fails at line k stops there: the slide is as the
\* statements before line k left it, no statement entry is appended for a
\* line after k, and the batch entry stays api_call_error.
C16_StopsAtFirstFailure ==
    \A i \in 1..Len(calls) :
        calls[i].kind # "none"
        => LET api_calls == calls[i].api_calls
               k == calls[i].line_idx
           IN  /\ api_history[i][1] = API_CALL_ERROR
               /\ ShapesAfter(i) =
                      ApplyLines(SubSeq(api_calls, 1, k),
                                 calls[i].shapes_before)
               /\ Cardinality(Appended(i)) <=
                      Cardinality({m \in Matching(api_calls) : m <= k + 1})

\* a batch that failed at its second line, before a statement that would
\* have queued a closure
C16_Witness ==
    /\ Called
    /\ LastCall.kind = "tuple"
    /\ LastCall.line_idx = 1
    /\ Len(LastCall.api_calls) = 3
    /\ LastCall.api_calls[1] = Call("del_span", <<1, 0, 0>>)
    /\ LastCall.api_calls[3] = Call("replace_text", <<1, 0, 0, 7>>)

\* a is an initial part of b
IsPrefix(a, b) == Len(a) <= Len(b) /\ SubSeq(b, 1, Len(a)) = a

\* the bucket an API function queues into and the closure it queues
BucketOf(func) ==
    CASE func = "del_span" -> "delete"
      [] func = "replace_text" -> "replace"
      [] func = "clone_paragraph" -> "clone"

ClosureOf(func, a) ==
    CASE func = "del_span" -> [fn |-> "del_run", args |-> <<a[2], a[3]>>]
      [] func = "replace_text" ->
             [fn |-> "replace_run", args |-> <<a[2], a[3], a[4]>>]
      [] func = "clone_paragraph" -> [fn |-> "clone_para", args |-> <<a[2]>>]

\* C17: no call applies or removes a closure of a shape that stays on the
\* slide; a successful del_span, replace_text or clone_paragraph appends
\* exactly one closure at the tail of its bucket of the addressed shape
\* and changes nothing else: no other bucket, no other shape, no paragraph.
C17_OnlyEnqueues ==
    /\ api_ret.func # None =>
          \A p \in 1..Len(shapes) :
              LET b == element_index(api_ret.shapes_before,
                                     shapes[p].shape_idx)
              IN  /\ b # 0
                  /\ shapes[p].paragraphs
                         = api_ret.shapes_before[b].paragraphs
                  /\ \A kind \in {"delete", "replace", "clone"} :
                         IsPrefix(api_ret.shapes_before[b].closures[kind],
                                  shapes[p].closures[kind])
    /\ ( /\ api_ret.func \in {"del_span", "replace_text", "clone_paragraph"}
         /\ api_ret.exc = None )
       => LET pos == element_index(api_ret.shapes_before, api_ret.args[1])
          IN  /\ pos # 0
              /\ shapes =
                     [api_ret.shapes_before EXCEPT
                         ![pos].closures[BucketOf(api_ret.func)] =
                             Append(@, ClosureOf(api_ret.func, api_ret.args))]

\* del_span queued a second, different closure behind the first
C17_Witness ==
    /\ api_ret.func = "del_span"
    /\ api_ret.exc = None
    /\ LET pos == element_index(shapes, api_ret.args[1]) IN
       /\ pos # 0
       /\ Len(shapes[pos].closures["delete"]) = 2
       /\ shapes[pos].closures["delete"][1]
              # shapes[pos].closures["delete"][2]

\* C19: a batch marked api_call_correct appended at least one statement
\* entry during its call.
C19_AcceptedBatchExecuted ==
    \A i \in 1..Len(calls) :
        api_history[i][1] = API_CALL_CORRECT => Appended(i) # {}

\* an accepted batch of one statement and one line of commentary
C19_Witness ==
    /\ Called
    /\ api_history[Len(calls)][1] = API_CALL_CORRECT
    /\ Cardinality(Appended(Len(calls))) = 1
    /\ Len(LastCall.api_calls) = 2
    /\ ~function_regex_match(LastCall.api_calls[2])

\* str.strip() of one line
Trim(line) == [line EXCEPT !.pre = "", !.post = ""]

\* C18 (as claimed): each line is trimmed before it is checked: in a batch
\* that is accepted every line that matches the grammar once trimmed was
\* executed, and a batch with a line that begins with def once trimmed is
\* rejected.
C18_LinesTrimmed ==
    \A i \in 1..Len(calls) :
        LET api_calls == calls[i].api_calls IN
        /\ calls[i].kind = "none" =>
               Cardinality(Appended(i)) =
                   Cardinality({m \in 1..Len(api_calls) :
                                   function_regex_match(Trim(api_calls[m]))})
        /\ (\E m \in 1..Len(api_calls) : startswith_def(Trim(api_calls[m])))
               => calls[i].kind # "none"

\* call i failed and call i + 1 was given the same text
RerunOf(i) ==
    /\ i + 1 <= Len(calls)
    /\ calls[i].kind # "none"
    /\ calls[i + 1].actions = calls[i].actions

\* the statements before the line at which call i failed
PrefixOf(i) == SubSeq(calls[i].api_calls, 1, calls[i].line_idx)

\* what the statements before the failing line did is still in place when
\* call i returns
NotRolledBack(i) ==
    ShapesAfter(i) = ApplyLines(PrefixOf(i), calls[i].shapes_before)

\* the closures call i queued into a bucket of the shape numbered id, a
\* shape that is on the slide before and after the call
QueuedBy(i, id, kind) ==
    LET before == calls[i].shapes_before[
                      element_index(calls[i].shapes_before, id)].closures[kind]
        after == ShapesAfter(i)[element_index(ShapesAfter(i), id)].closures[kind]
    IN  SubSeq(after, Len(before) + 1, Len(after))

\* C20 (as claimed): a failed batch is not rolled back, and the same batch
\* executed again queues a second time every closure the first execution
\* queued on a shape of the slide.
C20_RerunQueuesAgain ==
    \A i \in 1..Len(calls) :
        /\ calls[i].kind # "none" => NotRolledBack(i)
        /\ RerunOf(i) =>
               \A p \in 1..Len(ShapesAfter(i)) :
                   \A kind \in {"delete", "replace", "clone"} :
                       LET id == ShapesAfter(i)[p].shape_idx IN
                       /\ element_index(ShapesAfter(i + 1), id) # 0
                       /\ QueuedBy(i + 1, id, kind) = QueuedBy(i, id, kind)

\* the ids of the shapes call i took off the slide
RemovedBy(i) ==
    {calls[i].shapes_before[p].shape_idx :
         p \in 1..Len(calls[i].shapes_before)}
    \ {ShapesAfter(i)[p].shape_idx : p \in 1..Len(ShapesAfter(i))}

\* the lines (0-based) before the failing one of call i whose statement
\* names a shape that call i took off the slide
NamingRemoved(i) ==
    {m \in 0..(calls[i].line_idx - 1) :
        LET line == calls[i].api_calls[m + 1] IN
        /\ function_regex_match(line)
        /\ line.head \in registered_functions
        /\ line.args[1] \in RemovedBy(i)}

\* C20 (amended): a failed batch is not rolled back.  The same batch
\* executed again queues the closures of the statements before line k
\* once more provided none of them removed a shape; if one did, the
\* second execution fails at the first statement that names a removed
\* shape and repeats only the statements before that one.
C20_RerunQueuesAgainUnlessRemoved ==
    \A i \in 1..Len(calls) :
        /\ calls[i].kind # "none" => NotRolledBack(i)
        /\ RerunOf(i) =>
               LET k == IF NamingRemoved(i) = {} THEN calls[i].line_idx
                        ELSE First(NamingRemoved(i))
               IN  /\ calls[i + 1].kind # "none"
                   /\ calls[i + 1].line_idx = k
                   /\ ShapesAfter(i + 1) =
                          ApplyLines(SubSeq(calls[i].api_calls, 1, k),
                                     ShapesAfter(i))

\* a batch that queued a delete closure on shape 1 and then failed, given
\* again: the closure is queued twice
C20_Witness ==
    /\ Len(calls) = 2
    /\ RerunOf(1)
    /\ calls[1].line_idx = 1
    /\ calls[1].api_calls[1] = Call("del_span", <<1, 0, 0>>)
    /\ Len(shapes[1].closures["delete"]) = 2
    /\ shapes[1].closures["delete"][1] = shapes[1].closures["delete"][2]

====
